---- MODULE Spec2Model ----
(* Grid path planning: uniform-cost search, A* search with the Manhattan   *)
(* heuristic, and the replanning walk that re-invokes A* when a scripted    *)
(* dynamic obstacle triggers on the next step of the committed path.        *)
EXTENDS Integers, Sequences, FiniteSets, TLC

(* ---------------------------------------------------------------------- *)
(* Bounds of the explored inputs                                           *)
(* ---------------------------------------------------------------------- *)
\* search runs: maps of SearchHeight x SearchWidth cells of default terrain
\* with up to MaxMarked cells that are '#', digit 0 or digit RoughCost
SearchHeight == 2
SearchWidth == 3
MaxMarked == 3
\* the digit of a rough cell
RoughCost == 4
\* replanning runs: maps of ReplanHeight x ReplanWidth cells of default
\* terrain with up to MaxWalls '#' cells, MaxRough cells of digit RoughCost
\* and MaxDyn 'D' cells
ReplanHeight == 3
ReplanWidth == 4
MaxWalls == 1
MaxRough == 2
MaxDyn == 2

(* ---------------------------------------------------------------------- *)
(* Program constants                                                       *)
(* ---------------------------------------------------------------------- *)
\* float('inf'): the cost of an impassable cell; absorbing under addition
Inf == 1000000
\* default terrain cost, also the cost of 'S', 'G' and 'D' cells
TerrainCost == 1
\* time step from which a dynamic obstacle triggers
TriggerStep == 5
\* cost and path of the "no path" result (None, -1, n)
NoCost == -1
None == <<>>

VARIABLES
    grid,               \* self.grid: position -> cost
    height,             \* self.height
    width,              \* self.width
    dynamic_obstacles,  \* self.dynamic_obstacles (its key set)
    start_pos,          \* argument start_pos
    goal_pos,           \* argument goal_pos
    planner,            \* args.planner: "ucs", "a_star" or "dynamic"
    map_file,           \* the map file GridEnvironment is constructed from, NoMap when
                        \* the environment is given by its fields
    attrs,              \* the attributes assigned on the GridEnvironment object so far
    pc,                 \* "construct", "fields", "parse", "constructed", "start",
                        \* "search", "walk", "done" or "fault"
    frontier,           \* the heap of the running search
    visited,            \* best-cost map of the running search
    nodes_expanded,     \* pops of the running search
    pushed,             \* history: every entry the running search has pushed
    path,               \* local_search_replanning: the committed path
    it,                 \* local_search_replanning: next value of the range iterator
    range_stop,         \* local_search_replanning: end of range(len(path) - 1)
    total_path_cost,    \* local_search_replanning: accumulated cost
    total_nodes_expanded, \* local_search_replanning: accumulated expansions
    result,             \* the returned (path, cost, nodes_expanded)
    init_grid,          \* history: the grid the run started on
    checked,            \* history: <<pos, k>> with is_dynamic_obstacle_at(pos, k) evaluated false
    invoked_expansions, \* history: sum of nodes_expanded over the a_star_search calls of the run
    replans             \* history: number of re-searches of the run

envVars == <<height, width, dynamic_obstacles, start_pos, goal_pos, planner, init_grid,
             map_file, attrs>>
searchVars == <<frontier, visited, nodes_expanded, pushed>>
walkVars == <<path, it, range_stop, total_path_cost, total_nodes_expanded>>
histVars == <<checked, invoked_expansions, replans>>

vars == <<grid, envVars, pc, searchVars, walkVars, result, histVars>>

(* ---------------------------------------------------------------------- *)
(* GridEnvironment                                                         *)
(* ---------------------------------------------------------------------- *)
Cells(h, w) == (0 .. h - 1) \X (0 .. w - 1)

\* a GridEnvironment as the searches see it
Env(g, h, w) == [grid |-> g, height |-> h, width |-> w]

is_valid(env, pos) ==
    /\ 0 <= pos[1] /\ pos[1] < env.height
    /\ 0 <= pos[2] /\ pos[2] < env.width

is_passable(env, pos) == env.grid[pos] # Inf

get_cost(env, pos) == env.grid[pos]

\* the four moves in the order the loop tries them
Moves == << <<0, 1>>, <<0, -1>>, <<1, 0>>, <<-1, 0>> >>

\* get_neighbors without the is_passable test
get_neighbors_any_cell(env, pos) ==
    LET cand == [k \in 1 .. 4 |-> <<pos[1] + Moves[k][1], pos[2] + Moves[k][2]>>]
    IN SelectSeq(cand, LAMBDA n : is_valid(env, n))

get_neighbors(env, pos) ==
    LET cand == [k \in 1 .. 4 |-> <<pos[1] + Moves[k][1], pos[2] + Moves[k][2]>>]
    IN SelectSeq(cand, LAMBDA n : is_valid(env, n) /\ is_passable(env, n))

\* float addition with inf absorbing
Plus(a, b) == IF a = Inf \/ b = Inf THEN Inf ELSE a + b

(* ---------------------------------------------------------------------- *)
(* heapq over tuples: the pop order is Python's tuple order               *)
(* ---------------------------------------------------------------------- *)
PosLess(p, q) == p[1] < q[1] \/ (p[1] = q[1] /\ p[2] < q[2])

RECURSIVE PathLess(_, _)
PathLess(p, q) ==
    IF p = <<>> THEN q # <<>>
    ELSE IF q = <<>> THEN FALSE
    ELSE IF Head(p) # Head(q) THEN PosLess(Head(p), Head(q))
    ELSE PathLess(Tail(p), Tail(q))

\* the tuple order with the position compared before the costs
EntryLess_position_first(a, b) ==
    IF a.pos # b.pos THEN PosLess(a.pos, b.pos)
    ELSE IF a.f # b.f THEN a.f < b.f
    ELSE IF a.g # b.g THEN a.g < b.g
    ELSE PathLess(a.path, b.path)

\* frontier entries are [f, g, pos, path]; uniform-cost entries carry f = g
EntryLess(a, b) ==
    IF a.f # b.f THEN a.f < b.f
    ELSE IF a.g # b.g THEN a.g < b.g
    ELSE IF a.pos # b.pos THEN PosLess(a.pos, b.pos)
    ELSE PathLess(a.path, b.path)

heappop(fr) == CHOOSE e \in fr : \A o \in fr : o = e \/ EntryLess(e, o)

abs(x) == IF x < 0 THEN -x ELSE x

\* the squared straight-line distance in place of the Manhattan distance
manhattan_distance_squared(pos1, pos2) ==
    (pos1[1] - pos2[1]) * (pos1[1] - pos2[1]) + (pos1[2] - pos2[2]) * (pos1[2] - pos2[2])

manhattan_distance(pos1, pos2) == abs(pos1[1] - pos2[1]) + abs(pos1[2] - pos2[2])

(* ---------------------------------------------------------------------- *)
(* uniform_cost_search                                                     *)
(* ---------------------------------------------------------------------- *)
\* state of a search between loop iterations
SearchState(fr, vis, n) ==
    [frontier |-> fr, visited |-> vis, nodes_expanded |-> n,
     done |-> FALSE, path |-> None, cost |-> NoCost]

Returned(st, p, c, n) ==
    [st EXCEPT !.done = TRUE, !.path = p, !.cost = c, !.nodes_expanded = n]

ucs_init(start) ==
    SearchState({[f |-> 0, g |-> 0, pos |-> start, path |-> <<start>>]},
                (start :> 0), 0)

\* the neighbour loop recording new_cost before the test instead of after it
RECURSIVE ucs_expand_records_every_cost(_, _, _, _, _)
ucs_expand_records_every_cost(env, e, nbrs, fr, vis) ==
    IF nbrs = <<>> THEN [frontier |-> fr, visited |-> vis]
    ELSE LET next_pos == Head(nbrs)
             new_cost == e.g + get_cost(env, next_pos)
         IN IF next_pos \notin DOMAIN vis \/ new_cost < vis[next_pos]
            THEN ucs_expand_records_every_cost(env, e, Tail(nbrs),
                     fr \cup {[f |-> new_cost, g |-> new_cost, pos |-> next_pos,
                               path |-> Append(e.path, next_pos)]},
                     (next_pos :> new_cost) @@ vis)
            ELSE ucs_expand_records_every_cost(env, e, Tail(nbrs), fr,
                     (next_pos :> new_cost) @@ vis)

\* the for loop over the neighbours of the popped entry
RECURSIVE ucs_expand(_, _, _, _, _)
ucs_expand(env, e, nbrs, fr, vis) ==
    IF nbrs = <<>> THEN [frontier |-> fr, visited |-> vis]
    ELSE LET next_pos == Head(nbrs)
             new_cost == e.g + get_cost(env, next_pos)
         IN IF next_pos \notin DOMAIN vis \/ new_cost < vis[next_pos]
            THEN ucs_expand(env, e, Tail(nbrs),
                     fr \cup {[f |-> new_cost, g |-> new_cost, pos |-> next_pos,
                               path |-> Append(e.path, next_pos)]},
                     (next_pos :> new_cost) @@ vis)
            ELSE ucs_expand(env, e, Tail(nbrs), fr, vis)

\* the while loop without the return that follows it: an empty frontier
\* leaves the search where it is
ucs_step_no_exhaustion_return(env, goal, st) ==
    IF st.frontier = {} THEN st
    ELSE LET e == heappop(st.frontier)
             n == st.nodes_expanded + 1
         IN IF e.pos = goal
            THEN Returned([st EXCEPT !.frontier = st.frontier \ {e}], e.path, e.g, n)
            ELSE LET x == ucs_expand(env, e, get_neighbors(env, e.pos),
                                     st.frontier \ {e}, st.visited)
                 IN SearchState(x.frontier, x.visited, n)

\* one pass of the while loop, or the return after it
ucs_step(env, goal, st) ==
    IF st.frontier = {} THEN Returned(st, None, NoCost, st.nodes_expanded)
    ELSE LET e == heappop(st.frontier)
             n == st.nodes_expanded + 1
         IN IF e.pos = goal
            THEN Returned([st EXCEPT !.frontier = st.frontier \ {e}], e.path, e.g, n)
            ELSE LET x == ucs_expand(env, e, get_neighbors(env, e.pos),
                                     st.frontier \ {e}, st.visited)
                 IN SearchState(x.frontier, x.visited, n)

RECURSIVE ucs_run(_, _, _)
ucs_run(env, goal, st) ==
    IF st.done THEN st ELSE ucs_run(env, goal, ucs_step(env, goal, st))

uniform_cost_search(env, start, goal) == ucs_run(env, goal, ucs_init(start))

(* ---------------------------------------------------------------------- *)
(* a_star_search                                                           *)
(* ---------------------------------------------------------------------- *)
\* the initial state without the start recorded in the best-cost map
a_star_init_start_unrecorded(start, goal) ==
    SearchState({[f |-> 0 + manhattan_distance(start, goal), g |-> 0,
                  pos |-> start, path |-> <<start>>]},
                <<>>, 0)

a_star_init(start, goal) ==
    SearchState({[f |-> 0 + manhattan_distance(start, goal), g |-> 0,
                  pos |-> start, path |-> <<start>>]},
                (start :> 0), 0)

\* the neighbour loop accumulating on f_cost instead of g_cost
RECURSIVE a_star_expand_from_f(_, _, _, _, _, _)
a_star_expand_from_f(env, goal, e, nbrs, fr, vis) ==
    IF nbrs = <<>> THEN [frontier |-> fr, visited |-> vis]
    ELSE LET next_pos == Head(nbrs)
             new_g_cost == e.f + get_cost(env, next_pos)
             new_f_cost == new_g_cost + manhattan_distance(next_pos, goal)
         IN IF next_pos \notin DOMAIN vis \/ new_g_cost < vis[next_pos]
            THEN a_star_expand_from_f(env, goal, e, Tail(nbrs),
                     fr \cup {[f |-> new_f_cost, g |-> new_g_cost, pos |-> next_pos,
                               path |-> Append(e.path, next_pos)]},
                     (next_pos :> new_g_cost) @@ vis)
            ELSE a_star_expand_from_f(env, goal, e, Tail(nbrs), fr, vis)

\* the for loop over the neighbours of the popped entry
RECURSIVE a_star_expand(_, _, _, _, _, _)
a_star_expand(env, goal, e, nbrs, fr, vis) ==
    IF nbrs = <<>> THEN [frontier |-> fr, visited |-> vis]
    ELSE LET next_pos == Head(nbrs)
             new_g_cost == e.g + get_cost(env, next_pos)
             new_f_cost == new_g_cost + manhattan_distance(next_pos, goal)
         IN IF next_pos \notin DOMAIN vis \/ new_g_cost < vis[next_pos]
            THEN a_star_expand(env, goal, e, Tail(nbrs),
                     fr \cup {[f |-> new_f_cost, g |-> new_g_cost, pos |-> next_pos,
                               path |-> Append(e.path, next_pos)]},
                     (next_pos :> new_g_cost) @@ vis)
            ELSE a_star_expand(env, goal, e, Tail(nbrs), fr, vis)

\* the while loop with a stale popped entry dropped before it is counted
a_star_step_drops_stale_uncounted(env, goal, st) ==
    IF st.frontier = {} THEN Returned(st, None, NoCost, st.nodes_expanded)
    ELSE LET e == heappop(st.frontier)
             n == st.nodes_expanded + 1
         IN IF e.g > st.visited[e.pos]
            THEN SearchState(st.frontier \ {e}, st.visited, st.nodes_expanded)
            ELSE IF e.pos = goal
            THEN Returned([st EXCEPT !.frontier = st.frontier \ {e}], e.path, e.g, n)
            ELSE LET x == a_star_expand(env, goal, e, get_neighbors(env, e.pos),
                                        st.frontier \ {e}, st.visited)
                 IN SearchState(x.frontier, x.visited, n)

a_star_step(env, goal, st) ==
    IF st.frontier = {} THEN Returned(st, None, NoCost, st.nodes_expanded)
    ELSE LET e == heappop(st.frontier)
             n == st.nodes_expanded + 1
         IN IF e.pos = goal
            THEN Returned([st EXCEPT !.frontier = st.frontier \ {e}], e.path, e.g, n)
            ELSE LET x == a_star_expand(env, goal, e, get_neighbors(env, e.pos),
                                        st.frontier \ {e}, st.visited)
                 IN SearchState(x.frontier, x.visited, n)

RECURSIVE a_star_run(_, _, _)
a_star_run(env, goal, st) ==
    IF st.done THEN st ELSE a_star_run(env, goal, a_star_step(env, goal, st))

a_star_search(env, start, goal) == a_star_run(env, goal, a_star_init(start, goal))

(* ---------------------------------------------------------------------- *)
(* Dynamic obstacles                                                       *)
(* ---------------------------------------------------------------------- *)
\* the trigger test one step early
is_dynamic_obstacle_at_early(dyn, pos, time_step) ==
    pos \in dyn /\ time_step + 1 >= TriggerStep

\* the trigger test without the time step
is_dynamic_obstacle_at_any_time(dyn, pos, time_step) ==
    pos \in dyn /\ time_step >= 0

is_dynamic_obstacle_at(dyn, pos, time_step) ==
    pos \in dyn /\ time_step >= TriggerStep

\* update_grid_with_obstacle without the write to the grid
update_grid_with_obstacle_no_write(g, dyn, pos) == g

\* the grid after update_grid_with_obstacle(pos)
update_grid_with_obstacle(g, dyn, pos) ==
    IF pos \in dyn THEN [g EXCEPT ![pos] = Inf] ELSE g

(* ---------------------------------------------------------------------- *)
(* Inputs                                                                  *)
(* ---------------------------------------------------------------------- *)
environment == Env(grid, height, width)

NoResult == [path |-> None, cost |-> NoCost, nodes_expanded |-> 0]

\* no map file: the environment is given by its fields
NoMap == [height |-> 0, width |-> 0, chars |-> <<>>]

\* the attributes __init__ assigns
AllAttrs == {"grid", "height", "width", "start_pos", "goal_pos", "dynamic_obstacles"}

\* an environment with the fields the map describes, every attribute assigned
Constructed == map_file = NoMap /\ attrs = AllAttrs

Idle ==
    /\ pc = "start"
    /\ frontier = {}
    /\ visited = <<>>
    /\ nodes_expanded = 0
    /\ pushed = {}
    /\ path = None
    /\ it = 0
    /\ range_stop = 0
    /\ total_path_cost = 0
    /\ total_nodes_expanded = 0
    /\ result = NoResult
    /\ init_grid = grid
    /\ checked = {}
    /\ invoked_expansions = 0
    /\ replans = 0

SmallSubsets(S, n) == {T \in SUBSET S : Cardinality(T) <= n}

\* the 'S' cell of the explored maps
StartCell == <<0, 0>>

\* maps of the search bounds: 'S' in the top left corner, 'G' anywhere else,
\* up to MaxMarked other cells that are '#', digit 0 or digit RoughCost, placed
\* freely, default terrain everywhere else
SearchInit ==
    /\ height = SearchHeight
    /\ width = SearchWidth
    /\ start_pos = StartCell
    /\ goal_pos \in Cells(SearchHeight, SearchWidth) \ {start_pos}
    /\ \E marked \in SmallSubsets(Cells(SearchHeight, SearchWidth) \ {start_pos, goal_pos}, MaxMarked) :
       \E mark \in [marked -> {0, RoughCost, Inf}] :
          grid = [c \in Cells(SearchHeight, SearchWidth) |->
                     IF c \in marked THEN mark[c] ELSE TerrainCost]
    /\ dynamic_obstacles = {}
    /\ planner \in {"ucs", "a_star"}
    /\ Constructed
    /\ Idle

\* maps of the replanning bounds: default terrain, 'S' in the top left corner,
\* 'G' elsewhere on the top row, up to MaxWalls '#' cells, up to MaxRough cells
\* of digit RoughCost and up to MaxDyn 'D' cells, all placed freely
ReplanInit ==
    /\ height = ReplanHeight
    /\ width = ReplanWidth
    /\ start_pos = StartCell
    /\ goal_pos \in {c \in Cells(ReplanHeight, ReplanWidth) : c[1] = StartCell[1]} \ {start_pos}
    /\ \E walls \in SmallSubsets(Cells(ReplanHeight, ReplanWidth) \ {start_pos, goal_pos}, MaxWalls) :
       \E rough \in SmallSubsets(Cells(ReplanHeight, ReplanWidth) \ ({start_pos, goal_pos} \cup walls), MaxRough) :
          /\ grid = [c \in Cells(ReplanHeight, ReplanWidth) |->
                        IF c \in walls THEN Inf
                        ELSE IF c \in rough THEN RoughCost
                        ELSE TerrainCost]
          /\ dynamic_obstacles \in
                SmallSubsets(Cells(ReplanHeight, ReplanWidth)
                                 \ ({start_pos, goal_pos} \cup walls \cup rough), MaxDyn)
    /\ planner = "dynamic"
    /\ Constructed
    /\ Idle

(* ---------------------------------------------------------------------- *)
(* uniform_cost_search and a_star_search, one loop iteration per step      *)
(* ---------------------------------------------------------------------- *)
SetSearch(st) ==
    /\ frontier' = st.frontier
    /\ visited' = st.visited
    /\ nodes_expanded' = st.nodes_expanded
    /\ pushed' = pushed \cup st.frontier
    /\ IF st.done
       THEN /\ pc' = "done"
            /\ result' = [path |-> st.path, cost |-> st.cost,
                          nodes_expanded |-> st.nodes_expanded]
       ELSE /\ pc' = "search"
            /\ result' = result

UcsBegin ==
    /\ pc = "start" /\ planner = "ucs"
    /\ SetSearch(ucs_init(start_pos))
    /\ UNCHANGED <<grid, envVars, walkVars, histVars>>

UcsIterate ==
    /\ pc = "search" /\ planner = "ucs"
    /\ SetSearch(ucs_step(environment, goal_pos,
                          SearchState(frontier, visited, nodes_expanded)))
    /\ UNCHANGED <<grid, envVars, walkVars, histVars>>

AStarBegin ==
    /\ pc = "start" /\ planner = "a_star"
    /\ SetSearch(a_star_init(start_pos, goal_pos))
    /\ UNCHANGED <<grid, envVars, walkVars, histVars>>

AStarIterate ==
    /\ pc = "search" /\ planner = "a_star"
    /\ SetSearch(a_star_step(environment, goal_pos,
                             SearchState(frontier, visited, nodes_expanded)))
    /\ UNCHANGED <<grid, envVars, walkVars, histVars>>

SearchNext == UcsBegin \/ UcsIterate \/ AStarBegin \/ AStarIterate

SearchSpec == SearchInit /\ [][SearchNext]_vars

\* the searches called with any goal argument: the start cell itself, an
\* impassable cell, a cell walled off from the start; up to MaxMarked cells
\* other than the start are '#' or digit 0
AnyGoalInit ==
    /\ height = SearchHeight
    /\ width = SearchWidth
    /\ start_pos = StartCell
    /\ goal_pos \in Cells(SearchHeight, SearchWidth)
    /\ \E marked \in SmallSubsets(Cells(SearchHeight, SearchWidth) \ {start_pos}, MaxMarked) :
       \E mark \in [marked -> {0, Inf}] :
          grid = [c \in Cells(SearchHeight, SearchWidth) |->
                     IF c \in marked THEN mark[c] ELSE TerrainCost]
    /\ dynamic_obstacles = {}
    /\ planner \in {"ucs", "a_star"}
    /\ Constructed
    /\ Idle

AnyGoalSpec == AnyGoalInit /\ [][SearchNext]_vars

(* ---------------------------------------------------------------------- *)
(* local_search_replanning, one loop iteration per step                    *)
(* ---------------------------------------------------------------------- *)
\* path[:i + 1]: the slice taken through the current position
Prefix_through_current(p, i) == SubSeq(p, 1, i + 1)

\* path[:i] of a 1-based sequence
Prefix(p, i) == SubSeq(p, 1, i)

\* initial planning, up to the first iteration of the walk
Plan ==
    /\ pc = "start" /\ planner = "dynamic"
    /\ LET r == a_star_search(environment, start_pos, goal_pos)
       IN /\ invoked_expansions' = invoked_expansions + r.nodes_expanded
          /\ IF r.path = None
             THEN /\ pc' = "done"
                  /\ result' = [path |-> None, cost |-> NoCost,
                                nodes_expanded |-> r.nodes_expanded]
                  /\ UNCHANGED walkVars
             ELSE /\ pc' = "walk"
                  /\ path' = r.path
                  /\ total_path_cost' = 0
                  /\ total_nodes_expanded' = r.nodes_expanded
                  /\ it' = 0
                  /\ range_stop' = Len(r.path) - 1
                  /\ UNCHANGED result
    /\ UNCHANGED <<grid, envVars, searchVars, checked, replans>>

\* an iteration whose next step triggers no obstacle
Advance ==
    /\ pc = "walk" /\ it < range_stop
    /\ it + 2 <= Len(path)
    /\ LET next_pos == path[it + 2]
       IN /\ ~is_dynamic_obstacle_at(dynamic_obstacles, next_pos, it + 1)
          /\ checked' = checked \cup {<<next_pos, it + 1>>}
          /\ total_path_cost' = Plus(total_path_cost, get_cost(environment, next_pos))
    /\ it' = it + 1
    /\ UNCHANGED <<grid, envVars, pc, searchVars, path, range_stop,
                   total_nodes_expanded, result, invoked_expansions, replans>>

\* an iteration whose next step is a triggered obstacle: mark it, search again
\* from the current position, splice the new path in or give up
Replan ==
    /\ pc = "walk" /\ it < range_stop
    /\ it + 2 <= Len(path)
    /\ LET i == it
           current_pos == path[i + 1]
           next_pos == path[i + 2]
           new_grid == update_grid_with_obstacle(grid, dynamic_obstacles, next_pos)
           r == a_star_search(Env(new_grid, height, width), current_pos, goal_pos)
       IN /\ is_dynamic_obstacle_at(dynamic_obstacles, next_pos, i + 1)
          /\ grid' = new_grid
          /\ invoked_expansions' = invoked_expansions + r.nodes_expanded
          /\ replans' = replans + 1
          /\ IF r.path # None
             THEN /\ path' = Prefix(path, i) \o r.path
                  /\ total_path_cost' =
                        Plus(Plus(total_path_cost, r.cost),
                             get_cost(Env(new_grid, height, width), next_pos))
                  /\ total_nodes_expanded' = total_nodes_expanded + r.nodes_expanded
                  /\ it' = it + 1
                  /\ UNCHANGED <<pc, result>>
             ELSE /\ pc' = "done"
                  /\ result' = [path |-> None, cost |-> NoCost,
                                nodes_expanded |-> total_nodes_expanded]
                  /\ UNCHANGED <<path, total_path_cost, total_nodes_expanded, it>>
    /\ UNCHANGED <<envVars, searchVars, range_stop, checked>>

\* an iteration that reads path[i + 1] past the end of the spliced path
IndexError ==
    /\ pc = "walk" /\ it < range_stop
    /\ it + 2 > Len(path)
    /\ pc' = "fault"
    /\ UNCHANGED <<grid, envVars, searchVars, walkVars, result, histVars>>

\* the range is exhausted: return
WalkReturn ==
    /\ pc = "walk" /\ it = range_stop
    /\ pc' = "done"
    /\ result' = [path |-> path, cost |-> total_path_cost,
                  nodes_expanded |-> total_nodes_expanded]
    /\ UNCHANGED <<grid, envVars, searchVars, walkVars, histVars>>

ReplanNext == Plan \/ Advance \/ Replan \/ IndexError \/ WalkReturn

ReplanSpec == ReplanInit /\ [][ReplanNext]_vars

\* the three planners main dispatches to, each on its own maps
DeliverySpec == (SearchInit \/ ReplanInit) /\ [][SearchNext \/ ReplanNext]_vars

(* ---------------------------------------------------------------------- *)
(* GridEnvironment.__init__, one statement group per step                  *)
(* ---------------------------------------------------------------------- *)
\* int(char) for the characters with char.isdigit()
DigitValue ==
    ("0" :> 0) @@ ("1" :> 1) @@ ("2" :> 2) @@ ("3" :> 3) @@ ("4" :> 4) @@
    ("5" :> 5) @@ ("6" :> 6) @@ ("7" :> 7) @@ ("8" :> 8) @@ ("9" :> 9)

\* the k-th cell in the order the nested loops visit the cells
CellAt(w, k) == <<(k - 1) \div w, (k - 1) % w>>

\* the loops of load_grid from the k-th character on; st holds the rows built
\* so far and the attributes the loops have assigned on self
RECURSIVE load_cells(_, _, _)
load_cells(map, k, st) ==
    IF k > map.height * map.width \/ st.fault THEN st
    ELSE LET pos == CellAt(map.width, k)
             char == map.chars[pos]
         IN load_cells(map, k + 1,
               IF char \in DOMAIN DigitValue
               THEN [st EXCEPT !.grid = (pos :> DigitValue[char]) @@ @]
               ELSE IF char = "S"
               THEN [st EXCEPT !.grid = (pos :> TerrainCost) @@ @,
                               !.start_pos = pos, !.attrs = @ \cup {"start_pos"}]
               ELSE IF char = "G"
               THEN [st EXCEPT !.grid = (pos :> TerrainCost) @@ @,
                               !.goal_pos = pos, !.attrs = @ \cup {"goal_pos"}]
               ELSE IF char = "#"
               THEN [st EXCEPT !.grid = (pos :> Inf) @@ @]
               ELSE IF char = "D"
               THEN IF "dynamic_obstacles" \in st.attrs
                    THEN [st EXCEPT !.grid = (pos :> TerrainCost) @@ @,
                                    !.dynamic_obstacles = @ \cup {pos}]
                    ELSE [st EXCEPT !.fault = TRUE]
               ELSE [st EXCEPT !.grid = (pos :> TerrainCost) @@ @])

load_grid(map, self) == load_cells(map, 1, [self EXCEPT !.grid = <<>>])

\* Python's == on a number and a str, or on two values of one type
PyNumber(v) == [type |-> "number", val |-> v]
PyStr(v) == [type |-> "str", val |-> v]
py_eq(a, b) == a.type = b.type /\ a.val = b.val

\* the loops of parse_special_cells from the k-th cell on
RECURSIVE parse_cells(_, _, _, _)
parse_cells(g, w, k, st) ==
    IF k > Cardinality(DOMAIN g) THEN st
    ELSE LET pos == CellAt(w, k)
             cell_value == PyNumber(g[pos])
         IN parse_cells(g, w, k + 1,
               IF py_eq(cell_value, PyStr("S")) THEN [st EXCEPT !.start_pos = pos]
               ELSE IF py_eq(cell_value, PyStr("G")) THEN [st EXCEPT !.goal_pos = pos]
               ELSE IF py_eq(cell_value, PyStr("D"))
               THEN [st EXCEPT !.dynamic_obstacles = @ \cup {pos}]
               ELSE st)

\* the attributes of self the constructor works on
Self ==
    [grid |-> grid, start_pos |-> start_pos, goal_pos |-> goal_pos,
     dynamic_obstacles |-> dynamic_obstacles, attrs |-> attrs, fault |-> FALSE]

\* self.grid = self.load_grid(map_file): an AttributeError leaves grid unassigned
LoadGrid ==
    /\ pc = "construct"
    /\ LET r == load_grid(map_file, Self)
       IN /\ start_pos' = r.start_pos
          /\ goal_pos' = r.goal_pos
          /\ dynamic_obstacles' = r.dynamic_obstacles
          /\ IF r.fault
             THEN pc' = "fault" /\ attrs' = r.attrs /\ UNCHANGED <<grid, init_grid>>
             ELSE /\ pc' = "fields"
                  /\ attrs' = r.attrs \cup {"grid"}
                  /\ grid' = r.grid
                  /\ init_grid' = r.grid
    /\ UNCHANGED <<height, width, planner, map_file, searchVars, walkVars, result, histVars>>

\* height, width, start_pos, goal_pos and dynamic_obstacles are assigned
InitFields ==
    /\ pc = "fields"
    /\ height' = Cardinality({c[1] : c \in DOMAIN grid})
    /\ width' = Cardinality({c[2] : c \in {d \in DOMAIN grid : d[1] = 0}})
    /\ start_pos' = None
    /\ goal_pos' = None
    /\ dynamic_obstacles' = {}
    /\ attrs' = attrs \cup {"height", "width", "start_pos", "goal_pos", "dynamic_obstacles"}
    /\ pc' = "parse"
    /\ UNCHANGED <<grid, init_grid, planner, map_file, searchVars, walkVars, result, histVars>>

\* self.parse_special_cells(), the last statement of __init__
ParseSpecialCells ==
    /\ pc = "parse"
    /\ LET r == parse_cells(grid, width, 1, Self)
       IN /\ start_pos' = r.start_pos
          /\ goal_pos' = r.goal_pos
          /\ dynamic_obstacles' = r.dynamic_obstacles
    /\ pc' = "constructed"
    /\ UNCHANGED <<grid, init_grid, height, width, attrs, planner, map_file,
                   searchVars, walkVars, result, histVars>>

\* the characters of the explored map files besides 'S' and 'G'
MarkChars == {"#", "D", "0", "7"}

\* map files of SearchHeight lines of SearchWidth characters: one 'S', one 'G',
\* up to MaxMarked characters of MarkChars, '.' everywhere else
ConstructInit ==
    /\ \E s \in Cells(SearchHeight, SearchWidth) :
       \E g \in Cells(SearchHeight, SearchWidth) \ {s} :
       \E marked \in SmallSubsets(Cells(SearchHeight, SearchWidth) \ {s, g}, MaxMarked) :
       \E mark \in [marked -> MarkChars] :
          map_file = [height |-> SearchHeight, width |-> SearchWidth,
                      chars |-> [c \in Cells(SearchHeight, SearchWidth) |->
                                    IF c = s THEN "S" ELSE IF c = g THEN "G"
                                    ELSE IF c \in marked THEN mark[c] ELSE "."]]
    /\ attrs = {}
    /\ grid = <<>>
    /\ height = 0
    /\ width = 0
    /\ start_pos = None
    /\ goal_pos = None
    /\ dynamic_obstacles = {}
    /\ planner \in {"ucs", "a_star", "dynamic"}
    /\ pc = "construct"
    /\ frontier = {}
    /\ visited = <<>>
    /\ nodes_expanded = 0
    /\ pushed = {}
    /\ path = None
    /\ it = 0
    /\ range_stop = 0
    /\ total_path_cost = 0
    /\ total_nodes_expanded = 0
    /\ result = NoResult
    /\ init_grid = grid
    /\ checked = {}
    /\ invoked_expansions = 0
    /\ replans = 0

ConstructNext == LoadGrid \/ InitFields \/ ParseSpecialCells

ConstructSpec == ConstructInit /\ [][ConstructNext]_vars

(* ---------------------------------------------------------------------- *)
(* Notions the properties are stated in                                    *)
(* ---------------------------------------------------------------------- *)
Min(a, b) == IF a < b THEN a ELSE b

\* sum of get_cost over the positions of p after the first
RECURSIVE PathCost(_, _)
PathCost(env, p) ==
    IF Len(p) <= 1 THEN 0
    ELSE Plus(PathCost(env, SubSeq(p, 1, Len(p) - 1)), env.grid[p[Len(p)]])

Adjacent(p, q) ==
    \/ (p[1] = q[1] /\ (p[2] = q[2] + 1 \/ q[2] = p[2] + 1))
    \/ (p[2] = q[2] /\ (p[1] = q[1] + 1 \/ q[1] = p[1] + 1))

\* the cells one move away from c
Around(c) == {<<c[1], c[2] + 1>>, <<c[1], c[2] - 1>>, <<c[1] + 1, c[2]>>, <<c[1] - 1, c[2]>>}

\* cheapest total entry cost from start to every cell over 4-connected
\* passable paths, by relaxation to a fixed point (Inf where no path exists)
RECURSIVE RelaxCells(_, _, _)
RelaxCells(env, d, todo) ==
    IF todo = {} THEN d
    ELSE LET c == CHOOSE x \in todo : TRUE
             via == {Plus(d[q], env.grid[c]) : q \in Around(c) \cap DOMAIN d}
             best == IF env.grid[c] # Inf /\ \E v \in via : v < d[c]
                     THEN CHOOSE v \in via : \A w \in via : v <= w
                     ELSE d[c]
         IN RelaxCells(env, (c :> best) @@ d, todo \ {c})

RECURSIVE Relax(_, _)
Relax(env, d) ==
    LET next == RelaxCells(env, d, DOMAIN d)
    IN IF next = d THEN d ELSE Relax(env, next)

MinCost(env, start) ==
    Relax(env, (start :> 0) @@ [c \in Cells(env.height, env.width) |-> Inf])

\* p is a walk from start to goal over in-bounds passable cells of env
IsRoute(env, p, start, goal) ==
    /\ Len(p) >= 1
    /\ p[1] = start
    /\ p[Len(p)] = goal
    /\ \A k \in 1 .. Len(p) - 1 : Adjacent(p[k], p[k + 1])
    /\ \A k \in 2 .. Len(p) : is_valid(env, p[k]) /\ env.grid[p[k]] # Inf

SearchReturned(which) == pc = "done" /\ planner = which

WalkReturned == pc = "done" /\ planner = "dynamic" /\ result.path # None

\* the result of the initial plan on the grid the run started on
InitialPlan == a_star_search(Env(init_grid, height, width), start_pos, goal_pos)

(* ---------------------------------------------------------------------- *)
(* C1: uniform_cost_search returns the minimum total entry cost over all   *)
(* 4-connected passable paths from start to goal, and (None, -1, n)        *)
(* exactly when there is no such path.                                     *)
(* ---------------------------------------------------------------------- *)
C1_UcsReturnsMinimumCost ==
    SearchReturned("ucs") =>
        LET d == MinCost(environment, start_pos)[goal_pos]
        IN IF d = Inf
           THEN result.path = None /\ result.cost = NoCost
           ELSE result.path # None /\ result.cost = d

\* on a map without impassable cells, a cheapest path that is longer than
\* the shortest one
C1_Witness ==
    /\ SearchReturned("ucs")
    /\ result.path # None
    /\ \A c \in DOMAIN grid : grid[c] # Inf
    /\ Len(result.path) - 1 > manhattan_distance(start_pos, goal_pos)

(* ---------------------------------------------------------------------- *)
(* C2: on a grid whose passable cells all cost at least 1, a_star_search   *)
(* returns the cost uniform_cost_search returns, and no path in the same   *)
(* cases.                                                                  *)
(* ---------------------------------------------------------------------- *)
AllCostsAtLeastOne == \A c \in DOMAIN grid : grid[c] >= 1

C2_AStarCostEqualsUcsCost ==
    (SearchReturned("a_star") /\ AllCostsAtLeastOne) =>
        LET u == uniform_cost_search(environment, start_pos, goal_pos)
        IN /\ result.cost = u.cost
           /\ (result.path = None) <=> (u.path = None)

\* a weighted grid on which the path A* returns costs more than its length
C2_Witness ==
    /\ SearchReturned("a_star")
    /\ AllCostsAtLeastOne
    /\ result.path # None
    /\ \E c \in DOMAIN grid : grid[c] = RoughCost
    /\ result.cost > Len(result.path) - 1

(* ---------------------------------------------------------------------- *)
(* C3: every step of the path local_search_replanning returns was checked  *)
(* against the obstacle trigger at its index and found clear, so no        *)
(* registered dynamic obstacle stands at an index >= 5 of that path.       *)
(* ---------------------------------------------------------------------- *)
C3_EveryStepChecked ==
    WalkReturned =>
        /\ \A k \in 1 .. Len(result.path) - 1 : <<result.path[k + 1], k>> \in checked
        /\ \A k \in TriggerStep .. Len(result.path) - 1 :
              result.path[k + 1] \notin dynamic_obstacles

(* ---------------------------------------------------------------------- *)
(* C4: the total cost local_search_replanning returns with a path is       *)
(* finite and is the sum of get_cost over the positions after the start.   *)
(* ---------------------------------------------------------------------- *)
C4_CostIsSumOverPath ==
    WalkReturned =>
        /\ result.cost # Inf
        /\ result.cost = PathCost(environment, result.path)

(* ---------------------------------------------------------------------- *)
(* C5: the expansion count local_search_replanning returns is the sum of   *)
(* nodes_expanded over every a_star_search call of the run, a failed       *)
(* re-search included.                                                     *)
(* ---------------------------------------------------------------------- *)
C5_ExpansionsCoverEverySearch ==
    (pc = "done" /\ planner = "dynamic") => result.nodes_expanded = invoked_expansions

(* ---------------------------------------------------------------------- *)
(* C6: a run of local_search_replanning never faults on a path index past  *)
(* the end, and ends with a complete path or with (None, -1, count).       *)
(* ---------------------------------------------------------------------- *)
C6_PathOrFailureNeverFault ==
    planner = "dynamic" =>
        /\ pc # "fault"
        /\ pc = "done" =>
              \/ result.path = None /\ result.cost = NoCost
              \/ /\ result.path # None
                 /\ result.path[1] = start_pos
                 /\ result.path[Len(result.path)] = goal_pos

(* ---------------------------------------------------------------------- *)
(* C7: when no registered dynamic obstacle lies at an index >= 5 of the    *)
(* initial A* path, local_search_replanning makes no replan, leaves the    *)
(* grid unchanged and returns what a_star_search returns.                  *)
(* ---------------------------------------------------------------------- *)
NoObstacleOnInitialPath ==
    \A k \in TriggerStep .. Len(InitialPlan.path) - 1 :
        InitialPlan.path[k + 1] \notin dynamic_obstacles

C7_NoTriggerSameAsAStar ==
    (pc = "done" /\ planner = "dynamic" /\ NoObstacleOnInitialPath) =>
        /\ replans = 0
        /\ grid = init_grid
        /\ result = [path |-> InitialPlan.path, cost |-> InitialPlan.cost,
                     nodes_expanded |-> InitialPlan.nodes_expanded]

\* a walk of six or more positions over a registered obstacle that never triggers
C7_Witness ==
    /\ WalkReturned
    /\ NoObstacleOnInitialPath
    /\ Len(result.path) > TriggerStep
    /\ \E k \in 1 .. TriggerStep - 1 : result.path[k + 1] \in dynamic_obstacles
    /\ result.cost > Len(result.path) - 1

(* ---------------------------------------------------------------------- *)
(* C8: a path returned by uniform_cost_search or a_star_search begins at   *)
(* start, ends at goal, moves between 4-adjacent cells, and every position *)
(* after the start is in bounds and passable.                              *)
(* ---------------------------------------------------------------------- *)
C8_ReturnedPathIsRoute ==
    (pc = "done" /\ planner \in {"ucs", "a_star"} /\ result.path # None) =>
        IsRoute(environment, result.path, start_pos, goal_pos)

\* a returned path that goes around an impassable cell
C8_Witness ==
    /\ pc = "done" /\ planner \in {"ucs", "a_star"}
    /\ result.path # None
    /\ Len(result.path) - 1 > manhattan_distance(start_pos, goal_pos)
    /\ \E c \in DOMAIN grid : grid[c] = Inf /\ Adjacent(c, start_pos)

(* ---------------------------------------------------------------------- *)
(* C9: every position of a path local_search_replanning returns is in      *)
(* bounds and passable in the grid as it stands at the return.             *)
(* ---------------------------------------------------------------------- *)
C9_ReturnedWalkIsPassable ==
    WalkReturned =>
        \A k \in 1 .. Len(result.path) :
            is_valid(environment, result.path[k]) /\ is_passable(environment, result.path[k])

(* ---------------------------------------------------------------------- *)
(* C10: the accumulated cost of every frontier entry of a search is the    *)
(* sum of get_cost over its carried path after the start, and so is the    *)
(* cost returned with a path.                                              *)
(* ---------------------------------------------------------------------- *)
C10_EntryCostIsSumOverPath ==
    planner \in {"ucs", "a_star"} =>
        /\ \A e \in frontier : e.g = PathCost(environment, e.path)
        /\ (pc = "done" /\ result.path # None) =>
              result.cost = PathCost(environment, result.path)

\* a frontier entry of three or more positions over cells of different cost
C10_Witness ==
    /\ pc = "search" /\ planner \in {"ucs", "a_star"}
    /\ \E e \in frontier : Len(e.path) >= 3 /\ e.g # Len(e.path) - 1 /\ e.g > 0

(* ---------------------------------------------------------------------- *)
(* C11: uniform_cost_search and a_star_search return on every grid with    *)
(* non-negative costs for every goal, the start itself and an impassable   *)
(* or unreachable goal included; a search whose frontier empties without   *)
(* popping the goal returns (None, -1, n) with n >= 1.                     *)
(* ---------------------------------------------------------------------- *)
ExhaustedResult ==
    pc = "done" =>
        \/ /\ result.path # None
           /\ result.path[Len(result.path)] = goal_pos
        \/ /\ result.path = None
           /\ frontier = {}
           /\ result.cost = NoCost
           /\ result.nodes_expanded >= 1

\* what is left for a search to do: every cell's recorded best cost (Inf for
\* a cell without one), weighted above any change of the frontier's size in
\* one iteration, plus the size of the frontier
RECURSIVE BestSum(_, _, _)
BestSum(vis, w, k) ==
    IF k = 0 THEN 0
    ELSE LET c == <<(k - 1) \div w, (k - 1) % w>>
         IN (IF c \in DOMAIN vis THEN vis[c] ELSE Inf) + BestSum(vis, w, k - 1)

Remaining ==
    (Len(Moves) + 1) * BestSum(visited, width, height * width) + Cardinality(frontier)

\* the search state after one more iteration of the running search
NextIteration ==
    LET st == SearchState(frontier, visited, nodes_expanded)
    IN IF planner = "ucs" THEN ucs_step(environment, goal_pos, st)
       ELSE a_star_step(environment, goal_pos, st)

\* a running search always has a next iteration that pops or returns, every
\* iteration that does not return leaves strictly less to do, and what is left
\* is never negative: so the search returns after finitely many iterations
C11_SearchesReturn ==
    /\ [](pc = "search" => NextIteration # SearchState(frontier, visited, nodes_expanded))
    /\ [][(pc = "search" /\ pc' = "search") => (0 <= Remaining' /\ Remaining' < Remaining)]_vars
    /\ []ExhaustedResult

\* a search for an impassable goal that ran over a zero-cost cell and returned
\* no path after several pops
C11_Witness ==
    /\ pc = "done"
    /\ result.path = None
    /\ grid[goal_pos] = Inf
    /\ \E c \in DOMAIN grid : grid[c] = 0 /\ c \in DOMAIN visited
    /\ result.nodes_expanded >= 3

(* ---------------------------------------------------------------------- *)
(* C12: uniform_cost_search and a_star_search change no cell cost and the  *)
(* obstacle registry never changes; local_search_replanning changes a cell *)
(* only to impassable, only a registered dynamic obstacle, and only when   *)
(* the cell is the next position of the committed path at a time step      *)
(* >= 5; every other cell keeps its cost and an impassable cell stays      *)
(* impassable.                                                             *)
(* ---------------------------------------------------------------------- *)
C12_GridChangesOnlyByTrigger ==
    [][/\ dynamic_obstacles' = dynamic_obstacles
       /\ DOMAIN grid' = DOMAIN grid
       /\ planner \in {"ucs", "a_star"} => grid' = grid
       /\ \A c \in DOMAIN grid :
             grid'[c] # grid[c] =>
                /\ grid'[c] = Inf
                /\ c \in dynamic_obstacles
                /\ pc = "walk"
                /\ it + 2 <= Len(path)
                /\ c = path[it + 2]
                /\ it + 1 >= TriggerStep]_vars

\* a walk that marked a cell and went on to return a path
C12_Witness ==
    /\ WalkReturned
    /\ replans >= 1
    /\ \E c \in DOMAIN grid : grid[c] = Inf /\ init_grid[c] = TerrainCost
    /\ \E c \in DOMAIN grid : grid[c] = RoughCost

(* ---------------------------------------------------------------------- *)
(* C13: in a run of local_search_replanning each registered dynamic        *)
(* obstacle triggers at most once: every re-search follows the marking of  *)
(* an obstacle not marked before, so the re-searches of a run are at most  *)
(* as many as the registered obstacles.                                    *)
(* ---------------------------------------------------------------------- *)
\* the registered obstacles marked impassable so far
Triggered == {c \in dynamic_obstacles : grid[c] = Inf /\ init_grid[c] # Inf}

C13_EachObstacleTriggersOnce ==
    planner = "dynamic" =>
        /\ replans = Cardinality(Triggered)
        /\ replans <= Cardinality(dynamic_obstacles)

\* a finished run in which two registered obstacles triggered one after the other
C13_Witness ==
    /\ pc = "done" /\ planner = "dynamic"
    /\ Cardinality(dynamic_obstacles) >= 2
    /\ replans = Cardinality(dynamic_obstacles)

(* ---------------------------------------------------------------------- *)
(* C14: constructing GridEnvironment from a map with one 'S', one 'G' and  *)
(* any number of 'D' cells completes without fault; afterwards             *)
(* get_start_position() and get_goal_position() are the coordinates of the *)
(* 'S' and 'G' cells and dynamic_obstacles holds exactly the 'D' cells.    *)
(* ---------------------------------------------------------------------- *)
CellsOf(char) == {c \in DOMAIN map_file.chars : map_file.chars[c] = char}

C14_ConstructedFromMap ==
    map_file # NoMap =>
        /\ pc # "fault"
        /\ pc = "constructed" =>
              /\ {start_pos} = CellsOf("S")
              /\ {goal_pos} = CellsOf("G")
              /\ dynamic_obstacles = CellsOf("D")

(* ---------------------------------------------------------------------- *)
(* C15: on every grid whose costs are digits 0 to 9 or impassable,         *)
(* a_star_search returns a path of minimum total cost: the cost it returns *)
(* is the cost uniform_cost_search returns for the same grid, start and    *)
(* goal.                                                                   *)
(* ---------------------------------------------------------------------- *)
C15_AStarIsOptimalOnLoaderGrids ==
    SearchReturned("a_star") =>
        LET u == uniform_cost_search(environment, start_pos, goal_pos)
        IN /\ result.cost = u.cost
           /\ (result.path = None) <=> (u.path = None)

(* ---------------------------------------------------------------------- *)
(* C16: after every successful replan at walk index i the path is the old  *)
(* path's first i positions unchanged followed by the new A* path, which   *)
(* begins at the agent's current position (the old path[i]); the spliced   *)
(* path still begins at the start, ends at the goal and moves only between *)
(* 4-adjacent cells.                                                       *)
(* ---------------------------------------------------------------------- *)
C16_SpliceKeepsPrefixAndRoute ==
    [][(replans' = replans + 1 /\ pc' = "walk") =>
          LET i == it
              new_path == SubSeq(path', i + 1, Len(path'))
          IN /\ Len(path') > i
             /\ SubSeq(path', 1, i) = SubSeq(path, 1, i)
             /\ IsRoute(Env(grid', height, width), new_path, path[i + 1], goal_pos)
             /\ path'[1] = start_pos
             /\ path'[Len(path')] = goal_pos
             /\ \A k \in 1 .. Len(path') - 1 : Adjacent(path'[k], path'[k + 1])]_vars

\* a walk going on after a replan spliced in a path of another length
C16_Witness ==
    /\ pc = "walk"
    /\ replans >= 1
    /\ Len(path) > range_stop + 1
    /\ it > TriggerStep

(* ---------------------------------------------------------------------- *)
(* C17: in both searches the best-cost map entry of a position is only     *)
(* ever overwritten by a strictly lower accumulated cost: the recorded     *)
(* value never increases, and at every moment it is the minimum            *)
(* accumulated cost among all entries ever pushed for that position.       *)
(* ---------------------------------------------------------------------- *)
PushedCosts(c) == {e.g : e \in {x \in pushed : x.pos = c}}

BestIsMinimumPushed ==
    (planner \in {"ucs", "a_star"} /\ pc \in {"search", "done"}) =>
        /\ DOMAIN visited = {e.pos : e \in pushed}
        /\ \A c \in DOMAIN visited :
              /\ visited[c] \in PushedCosts(c)
              /\ \A g \in PushedCosts(c) : visited[c] <= g

C17_BestCostOnlyDecreases ==
    /\ []BestIsMinimumPushed
    /\ [][\A c \in DOMAIN visited :
             /\ c \in DOMAIN visited'
             /\ visited'[c] # visited[c] => visited'[c] < visited[c]]_vars

\* a position pushed a second time with a lower cost that replaced the recorded one
C17_Witness ==
    /\ pc = "search"
    /\ \E c \in DOMAIN visited :
          /\ Cardinality(PushedCosts(c)) >= 2
          /\ \E g \in PushedCosts(c) : visited[c] < g

(* ---------------------------------------------------------------------- *)
(* C18: in both searches a popped entry that is stale (its accumulated     *)
(* cost is greater than the best cost recorded for its position) is        *)
(* ignored: popping it pushes no entry and changes no best-cost entry; it  *)
(* is still counted in nodes_expanded, which is the number of pops.        *)
(* ---------------------------------------------------------------------- *)
\* the entries popped so far
Popped == pushed \ frontier

C18_StalePopIsIgnoredButCounted ==
    /\ [](planner \in {"ucs", "a_star"} => nodes_expanded = Cardinality(Popped))
    /\ [][(pc = "search" /\ frontier # {}
            /\ heappop(frontier).g > visited[heappop(frontier).pos]) =>
              /\ frontier' = frontier \ {heappop(frontier)}
              /\ visited' = visited
              /\ nodes_expanded' = nodes_expanded + 1
              /\ result'.path = None]_vars

\* a search that has popped two entries of one position, the cheaper one first
C18_Witness ==
    /\ pc \in {"search", "done"}
    /\ \E e \in Popped : \E b \in Popped :
          e.pos = b.pos /\ b.g < e.g /\ visited[e.pos] = b.g

(* ---------------------------------------------------------------------- *)
(* C19: every path carried by a frontier entry of either search, and so    *)
(* every path a search returns, visits no position twice, also on grids    *)
(* with zero-cost cells.                                                   *)
(* ---------------------------------------------------------------------- *)
NoRepeat(p) == \A j \in 1 .. Len(p) : \A k \in 1 .. Len(p) : p[j] = p[k] => j = k

C19_PathsVisitNoPositionTwice ==
    planner \in {"ucs", "a_star"} =>
        /\ \A e \in frontier : NoRepeat(e.path)
        /\ NoRepeat(result.path)

\* a queued path of four or more positions that crosses a zero-cost cell next
\* to another zero-cost cell
C19_Witness ==
    /\ pc = "search"
    /\ \E e \in frontier :
          /\ Len(e.path) >= 4
          /\ \E k \in 2 .. Len(e.path) - 1 :
                grid[e.path[k]] = 0 /\ grid[e.path[k + 1]] = 0

====
